---- MODULE Spec2Model ----
(***************************************************************************)
(* Model of the fontobene converters:                                      *)
(*   src/newstroke_hershey/convert.py  (Hershey stroke font -> FontoBene)  *)
(*   src/lff/convert.py                (LFF -> FontoBene)                  *)
(*                                                                         *)
(* Numbers.  Coordinates, arc angles and widths are kept as integers in    *)
(* units of 1/2100, so that the scaling by 9.0/21.0 is                     *)
(* (ord - ord('R')) * 900, the spacing 3.26 is 6846, and rounding to two   *)
(* decimals is rounding of the quotient by 21 (which never meets a tie).   *)
(* The residual of a circle fit is kept in units of 1/100, so that         *)
(* residu / len > 0.01  is  residu > len.                                  *)
(*                                                                         *)
(* scipy.optimize.leastsq is not part of the repository.  Its result for   *)
(* a window of points is an input of the model: a function from the        *)
(* windows of a polyline to the values the code reads from the fit (the    *)
(* residual, the solver's status flag ier, the angle between the window's  *)
(* end points seen from the fitted centre).  What the code computes from   *)
(* them is modelled from the code.                                         *)
(***************************************************************************)
EXTENDS Integers, Sequences, FiniteSets, TLC

VARIABLES
    polyline,   \* convert_polyline_arcs: its argument
    fit,        \* result of leastsq_circle for every window <<i, k>> of polyline
    i,          \* convert_polyline_arcs: cursor
    k,          \* convert_polyline_arcs: loop variable of the for loop (0: unbound)
    arc,        \* convert_polyline_arcs: arc of the last iteration, or None
    vertices,   \* convert_polyline_arcs: output list
    pc,         \* position of the running function
    pass,       \* number of the current application of convert_polyline_arcs
    first,      \* result of the first application, when a second one runs
    hershey,    \* convert_glyph: the glyph's stroke buffer
    gfit,       \* results of leastsq_circle for the windows of the glyph's strokes
    glyph,      \* convert_glyph: what it returns (body), or that it raised
    text,       \* move_bulge_parameter: match.groups()[0]
    moved       \* move_bulge_parameter: the returned string

vars == <<polyline, fit, i, k, arc, vertices, pc, pass, first,
          hershey, gfit, glyph, text, moved>>

segVars == <<polyline, fit, i, k, arc, vertices, pass, first>>
glyphVars == <<hershey, gfit, glyph>>
lffVars == <<text, moved>>

-----------------------------------------------------------------------------
(* Bounds of the model *)

MaxPoints == 4      \* longest polyline given to convert_polyline_arcs
MaxTwice == 3       \* longest polyline segmented twice
MaxData == 6        \* longest stroke buffer after its two metadata symbols
MaxVerts == 3       \* most vertices of an LFF polyline

-----------------------------------------------------------------------------
(* Python values *)

\* None; also the falsy result of try_convert_polyline_to_arc
None == <<>>

Min(a, b) == IF a <= b THEN a ELSE b
Max(a, b) == IF a >= b THEN a ELSE b

-----------------------------------------------------------------------------
(* Circle fit: what leastsq_circle can return *)

\* the windows polyline[i:i+k] that convert_polyline_arcs can examine
Windows(n) == {w \in (0 .. n) \X (3 .. Max(n, 3)) : w[1] + w[2] <= n}

\* polyline[i:i+k]
Slice(p, lo, len) == SubSeq(p, lo + 1, lo + len)

\* the x and y lists handed to leastsq_circle
XY(p) == [j \in 1 .. Len(p) |-> <<p[j][1], p[j][2]>>]

\* every point of the window is the same point
Degenerate(p) == \A j \in 1 .. Len(p) : XY(p)[j] = XY(p)[1]

\* ier 1..4: the solver converged; 5: maxfev reached without convergence
FitResults ==
    { [residu |-> 0, ier |-> 1, angle |-> 63],
      [residu |-> 4, ier |-> 5, angle |-> -42],
      [residu |-> 9, ier |-> 2, angle |-> 21] }

\* one more result, for the windows of a polyline that is segmented twice
FitResultsTwice == FitResults \cup { [residu |-> 2, ier |-> 1, angle |-> 84] }

\* leastsq_circle is a function of the x and y lists; when all points
\* coincide every Ri equals R, so residu = sum((Ri - R)**2) is 0
IsFitOf(p, f) ==
    /\ \A w1 \in DOMAIN f, w2 \in DOMAIN f :
          XY(Slice(p, w1[1], w1[2])) = XY(Slice(p, w2[1], w2[2])) => f[w1] = f[w2]
    /\ \A w \in DOMAIN f : Degenerate(Slice(p, w[1], w[2])) => f[w].residu = 0

FitsOf(p, results) == {f \in [Windows(Len(p)) -> results] : IsFitOf(p, f)}

\* the fits of q agree with the fits f of p on equal lists of points
AgreesWith(q, g, p, f) ==
    \A w2 \in DOMAIN g, w1 \in DOMAIN f :
        XY(Slice(q, w2[1], w2[2])) = XY(Slice(p, w1[1], w1[2])) => g[w2] = f[w1]

-----------------------------------------------------------------------------
(* try_convert_polyline_to_arc *)

\* the comparison of the acceptance test turned around
ResidualTooLargeFlipped(residu, len) == residu < len

\* residu / len(polyline) > 0.01
ResidualTooLarge(residu, len) == residu > len

\* (a2 - a1) * 9 / pi: a1 = a2 when the end points coincide
ArcAngle(p, r) ==
    IF XY(p)[1] = XY(p)[Len(p)] THEN 0 ELSE r.angle

try_convert_polyline_to_arc(p, r) ==
    IF ResidualTooLarge(r.residu, Len(p))
    THEN None
    ELSE << <<p[1][1], p[1][2], ArcAngle(p, r)>>,
            <<p[Len(p)][1], p[Len(p)][2], p[Len(p)][3]>> >>

-----------------------------------------------------------------------------
(* convert_polyline_arcs *)

\* the window lengths tried shortest first: for k in range(3, len(polyline) - i + 1)
ForLoopShortestFirst(p, f, ii, kk, kprev) ==
    LET accepted == {k2 \in 3 .. kk :
                        try_convert_polyline_to_arc(Slice(p, ii, k2), f[<<ii, k2>>]) # None}
        shortest == CHOOSE k2 \in accepted : \A k3 \in accepted : k2 <= k3
    IN  IF accepted = {}
        THEN [arc |-> None, k |-> IF kk >= 3 THEN kk ELSE kprev]
        ELSE [arc |-> try_convert_polyline_to_arc(Slice(p, ii, shortest), f[<<ii, shortest>>]),
              k |-> shortest]

\* for k in range(len(polyline) - i, 2, -1): ... break
\* the values of arc and k when the for loop is left, kk the next k to try
RECURSIVE ForLoop(_, _, _, _, _)
ForLoop(p, f, ii, kk, kprev) ==
    IF kk <= 2
    THEN [arc |-> None, k |-> kprev]
    ELSE LET a == try_convert_polyline_to_arc(Slice(p, ii, kk), f[<<ii, kk>>])
         IN  IF a # None
             THEN [arc |-> a, k |-> kk]
             ELSE ForLoop(p, f, ii, kk - 1, kk)

\* the literal vertex appended without its annotation
WhileBodyPlain(p, f, st) ==
    LET r == ForLoop(p, f, st.i, Len(p) - st.i, st.k)
    IN  IF r.arc # None
        THEN [i |-> st.i + r.k - 1, k |-> r.k, arc |-> r.arc,
              vertices |-> st.vertices \o r.arc]
        ELSE [i |-> st.i + 1, k |-> r.k, arc |-> None,
              vertices |-> Append(st.vertices, <<p[st.i + 1][1], p[st.i + 1][2], 0>>)]

\* one iteration of the while loop on the state [i, k, arc, vertices]
WhileBody(p, f, st) ==
    LET r == ForLoop(p, f, st.i, Len(p) - st.i, st.k)
    IN  IF r.arc # None
        THEN [i |-> st.i + r.k - 1, k |-> r.k, arc |-> r.arc,
              vertices |-> st.vertices \o r.arc]
        ELSE [i |-> st.i + 1, k |-> r.k, arc |-> None,
              vertices |-> Append(st.vertices, p[st.i + 1])]

\* the loop left when the cursor reaches the last index
WhileConditionEarly(p, ii) == ii < Len(p) - 1

\* while i < len(polyline)
WhileCondition(p, ii) == ii < Len(p)

RECURSIVE WhileLoop(_, _, _)
WhileLoop(p, f, st) ==
    IF WhileCondition(p, st.i) THEN WhileLoop(p, f, WhileBody(p, f, st)) ELSE st

convert_polyline_arcs(p, f) ==
    WhileLoop(p, f, [i |-> 0, k |-> 0, arc |-> None, vertices |-> <<>>]).vertices

-----------------------------------------------------------------------------
(* Point decoding: convert_x, convert_y, convert_polyline, convert_polylines *)

\* a stroke buffer is a sequence of characters, each kept as its ord()
OrdR == 82
OrdSpace == 32

\* the separator of hershey.split(' R')
PenLift == <<OrdSpace, OrdR>>

convert_x(c) == (c - OrdR) * 900

convert_y(c) == (-((c - OrdR) - 9)) * 900

\* the truth value of None or of a number
Truthy(o) == o # None /\ o[1] # 0

\* str.split(sep) for a separator of two characters: the occurrences are
\* found from left to right and never overlap
RECURSIVE Split(_)
Split(s) ==
    LET hits == {j \in 1 .. Len(s) - 1 : <<s[j], s[j + 1]>> = PenLift}
        j1 == CHOOSE j \in hits : \A j2 \in hits : j <= j2
    IN  IF hits = {}
        THEN <<s>>
        ELSE <<SubSeq(s, 1, j1 - 1)>> \o Split(SubSeq(s, j1 + 2, Len(s)))

\* the loop of convert_polyline from point n on; x_min and x_max are None
\* (<<>>) or a number (<<x>>)
RECURSIVE ConvertPolylineFrom(_, _, _)
ConvertPolylineFrom(h, n, st) ==
    IF n >= Len(h) \div 2
    THEN st
    ELSE LET x == convert_x(h[n * 2 + 1])
             y == convert_y(h[n * 2 + 2])
         IN  ConvertPolylineFrom(h, n + 1,
                [vertices |-> Append(st.vertices, <<x, y, 0>>),
                 x_min |-> IF Truthy(st.x_min) THEN <<Min(x, st.x_min[1])>> ELSE <<x>>,
                 x_max |-> IF Truthy(st.x_max) THEN <<Max(x, st.x_max[1])>> ELSE <<x>>])

convert_polyline(h) ==
    ConvertPolylineFrom(h, 0, [vertices |-> <<>>, x_min |-> None, x_max |-> None])

\* the body of the loop of convert_polylines for the segment p, whose windows
\* have the fits f; min() and max() raise TypeError when given None
ConvertSegment(p, f, st) ==
    IF st.raised \/ Len(p) = 0
    THEN st
    ELSE LET c == convert_polyline(p)
             polylines == st.polylines \o <<c.vertices, convert_polyline_arcs(c.vertices, f)>>
         IN  IF (Truthy(st.x_min_total) /\ c.x_min = None)
                   \/ (Truthy(st.x_max_total) /\ c.x_max = None)
             THEN [st EXCEPT !.raised = TRUE, !.polylines = polylines]
             ELSE [polylines |-> polylines,
                   x_min_total |-> IF Truthy(st.x_min_total)
                                   THEN <<Min(c.x_min[1], st.x_min_total[1])>>
                                   ELSE c.x_min,
                   x_max_total |-> IF Truthy(st.x_max_total)
                                   THEN <<Max(c.x_max[1], st.x_max_total[1])>>
                                   ELSE c.x_max,
                   raised |-> FALSE]

RECURSIVE ConvertSegments(_, _, _, _)
ConvertSegments(segs, g, n, st) ==
    IF n > Len(segs)
    THEN st
    ELSE ConvertSegments(segs, g, n + 1, ConvertSegment(segs[n], g[n], st))

\* g[n]: the fits of the windows of the n-th piece of hershey.split(' R')
convert_polylines(h, g) ==
    ConvertSegments(Split(h), g, 1,
        [polylines |-> <<>>, x_min_total |-> None, x_max_total |-> None,
         raised |-> FALSE])

-----------------------------------------------------------------------------
(* Output: offset_polylines, format_number, format_vertex, format_polylines,
   convert_glyph *)

offset_polylines(polylines, x_offset, y_offset) ==
    [n \in 1 .. Len(polylines) |->
        [j \in 1 .. Len(polylines[n]) |->
            <<polylines[n][j][1] + x_offset, polylines[n][j][2] + y_offset,
              polylines[n][j][3]>>]]

\* round(float(num), 2): the number of hundredths, from which the digits of
\* the returned string are written
format_number(num) == (2 * num + 21) \div 42

\* 'x,y' or 'x,y,angle': the list of the numbers written
format_vertex(v) ==
    IF v[3] # 0
    THEN <<format_number(v[1]), format_number(v[2]), format_number(v[3])>>
    ELSE <<format_number(v[1]), format_number(v[2])>>

\* the lines joined by '\n', each the vertices joined by ';'
format_polylines(polylines) ==
    [n \in 1 .. Len(polylines) |->
        [j \in 1 .. Len(polylines[n]) |-> format_vertex(polylines[n][j])]]

\* right - left - 3.26
Spacing == 6846

\* what convert_glyph computes after the header; raised: a TypeError left it
convert_glyph(h, g) ==
    LET c == convert_polylines(SubSeq(h, 3, Len(h)), g)
        shifted == offset_polylines(c.polylines, -c.x_min_total[1], 0)
        left == convert_x(h[1])
        right == convert_x(h[2])
    IN  IF c.raised \/ (Len(c.polylines) > 0 /\ c.x_min_total = None)
        THEN [raised |-> TRUE, polylines |-> c.polylines, shifted |-> <<>>,
              body |-> <<>>, advance |-> None]
        ELSE IF Len(c.polylines) > 0
        THEN [raised |-> FALSE, polylines |-> c.polylines, shifted |-> shifted,
              body |-> format_polylines(shifted), advance |-> None]
        ELSE [raised |-> FALSE, polylines |-> c.polylines, shifted |-> <<>>,
              body |-> <<>>,
              advance |-> <<format_number(Max(right - left - Spacing, 0))>>]

-----------------------------------------------------------------------------
(* LFF converter: move_bulge_parameter *)

\* a string is a sequence of characters; str.split(sep) for a separator of
\* one character: the pieces between the separators, empty pieces kept
RECURSIVE SplitChar(_, _)
SplitChar(s, sep) ==
    LET hits == {j \in 1 .. Len(s) : s[j] = sep}
        j1 == CHOOSE j \in hits : \A j2 \in hits : j <= j2
    IN  IF hits = {}
        THEN <<s>>
        ELSE <<SubSeq(s, 1, j1 - 1)>> \o SplitChar(SubSeq(s, j1 + 1, Len(s)), sep)

\* sep.join(parts)
RECURSIVE JoinChar(_, _)
JoinChar(parts, sep) ==
    IF Len(parts) = 0 THEN <<>>
    ELSE IF Len(parts) = 1 THEN parts[1]
    ELSE parts[1] \o <<sep>> \o JoinChar(Tail(parts), sep)

\* [v.split(',') for v in match.groups()[0].split(';')]
SplitVertices(s) ==
    LET vs == SplitChar(s, ";")
    IN  [n \in 1 .. Len(vs) |-> SplitChar(vs[n], ",")]

\* del vertex[2]
DelThird(v) == SubSeq(v, 1, 2) \o SubSeq(v, 4, Len(v))

\* the loop body without the del: the bulge stays on the end vertex too
MoveBulgeOfKept(vs, n) ==
    IF Len(vs) > n /\ Len(vs[n + 1]) > 2
    THEN [vs EXCEPT ![n] = Append(vs[n], vs[n + 1][3])]
    ELSE vs

\* the body of the loop of move_bulge_parameter for vertex n (i = n - 1),
\* on the list as the earlier iterations left it
MoveBulgeOf(vs, n) ==
    LET deleted == IF Len(vs[n]) > 2 THEN DelThird(vs[n]) ELSE vs[n]
    IN  IF Len(vs) > n /\ Len(vs[n + 1]) > 2
        THEN [vs EXCEPT ![n] = Append(deleted, vs[n + 1][3])]
        ELSE [vs EXCEPT ![n] = deleted]

RECURSIVE MoveBulgesFrom(_, _)
MoveBulgesFrom(vs, n) ==
    IF n > Len(vs) THEN vs ELSE MoveBulgesFrom(MoveBulgeOf(vs, n), n + 1)

move_bulge_parameter(s) ==
    LET vs == MoveBulgesFrom(SplitVertices(s), 1)
    IN  JoinChar([n \in 1 .. Len(vs) |-> JoinChar(vs[n], ",")], ";")

-----------------------------------------------------------------------------
(* Specification Spec: convert_polyline_arcs, one loop iteration per step *)

Vertices == {<<0, 0, 0>>, <<9, -18, 0>>, <<9, -18, 7>>}

RECURSIVE SeqsUpTo(_, _)
SeqsUpTo(S, n) ==
    IF n = 0 THEN {<<>>}
    ELSE LET shorter == SeqsUpTo(S, n - 1)
         IN  shorter \cup {Append(s, e) : s \in {t \in shorter : Len(t) = n - 1}, e \in S}

Polylines(n) == SeqsUpTo(Vertices, n)

Idle ==
    /\ hershey = <<>> /\ gfit = <<>> /\ glyph = None
    /\ text = <<>> /\ moved = None

Init ==
    /\ polyline \in Polylines(MaxPoints)
    /\ fit \in FitsOf(polyline, FitResults)
    /\ i = 0 /\ k = 0 /\ arc = None /\ vertices = <<>>
    /\ pc = "while" /\ pass = 1 /\ first = None
    /\ Idle

\* lines 133-143: one pass through the body of the while loop
Iterate ==
    /\ pc = "while"
    /\ WhileCondition(polyline, i)
    /\ LET st == WhileBody(polyline, fit, [i |-> i, k |-> k, arc |-> arc,
                                           vertices |-> vertices])
       IN  /\ i' = st.i
           /\ k' = st.k
           /\ arc' = st.arc
           /\ vertices' = st.vertices
    /\ UNCHANGED <<polyline, fit, pc, pass, first, glyphVars, lffVars>>

\* line 144: the loop condition fails, return vertices
Return ==
    /\ pc = "while"
    /\ ~WhileCondition(polyline, i)
    /\ pc' = "returned"
    /\ UNCHANGED <<segVars, glyphVars, lffVars>>

Next == Iterate \/ Return

Spec == Init /\ [][Next]_vars

-----------------------------------------------------------------------------
(* Specification SpecTwice: convert_polyline_arcs applied to its own result *)

InitTwice ==
    /\ polyline \in Polylines(MaxTwice)
    /\ fit \in FitsOf(polyline, FitResultsTwice)
    /\ i = 0 /\ k = 0 /\ arc = None /\ vertices = <<>>
    /\ pc = "while" /\ pass = 1 /\ first = None
    /\ Idle

\* convert_polyline_arcs(convert_polyline_arcs(p)): the second call starts
Again ==
    /\ pc = "returned"
    /\ pass = 1
    /\ first' = [polyline |-> polyline, vertices |-> vertices]
    /\ polyline' = vertices
    /\ fit' \in {g \in FitsOf(vertices, FitResultsTwice) :
                    AgreesWith(vertices, g, polyline, fit)}
    /\ i' = 0 /\ k' = 0 /\ arc' = None /\ vertices' = <<>>
    /\ pc' = "while"
    /\ pass' = 2
    /\ UNCHANGED <<glyphVars, lffVars>>

NextTwice == Iterate \/ Return \/ Again

SpecTwice == InitTwice /\ [][NextTwice]_vars

-----------------------------------------------------------------------------
(* Specification SpecGlyph: convert_glyph on one stroke buffer *)

Symbols == {OrdSpace, 80, OrdR, 84}
Metadata == {<<74, 90>>, <<80, 84>>}

Buffers == {m \o d : m \in Metadata, d \in SeqsUpTo(Symbols, MaxData)}

\* the polylines decoded from the pieces of the buffer
Decoded(h) ==
    LET segs == Split(SubSeq(h, 3, Len(h)))
    IN  [n \in 1 .. Len(segs) |-> convert_polyline(segs[n]).vertices]

\* for every piece of the buffer, the fits of the windows of its polyline
GlyphFits(h) ==
    LET polys == Decoded(h)
        each == UNION {FitsOf(polys[n], FitResults) : n \in 1 .. Len(polys)}
    IN  {g \in [1 .. Len(polys) -> each] :
            /\ \A n \in 1 .. Len(polys) : g[n] \in FitsOf(polys[n], FitResults)
            /\ \A n1, n2 \in 1 .. Len(polys) :
                  AgreesWith(polys[n1], g[n1], polys[n2], g[n2])}

InitGlyph ==
    /\ hershey \in Buffers
    /\ gfit \in GlyphFits(hershey)
    /\ glyph = None
    /\ pc = "convert_glyph"
    /\ polyline = <<>> /\ fit = <<>> /\ i = 0 /\ k = 0 /\ arc = None
    /\ vertices = <<>> /\ pass = 1 /\ first = None
    /\ text = <<>> /\ moved = None

\* lines 178-198
CallConvertGlyph ==
    /\ pc = "convert_glyph"
    /\ glyph' = convert_glyph(hershey, gfit)
    /\ pc' = "returned"
    /\ UNCHANGED <<segVars, hershey, gfit, lffVars>>

NextGlyph == CallConvertGlyph

SpecGlyph == InitGlyph /\ [][NextGlyph]_vars

-----------------------------------------------------------------------------
(* Specification SpecLff: move_bulge_parameter on one match of polyline_re *)

XFields == {<<"0">>, <<"1", "2">>}
YFields == {<<"-", ".", "5">>}
BulgeFields == {<<"3">>, <<"-", "4">>}

\* 'x,y' or 'x,y,bulge', as convert_vertex writes a vertex
LffVertices ==
    {JoinChar(<<x, y>>, ",") : x \in XFields, y \in YFields}
        \cup {JoinChar(<<x, y, b>>, ",") : x \in XFields, y \in YFields, b \in BulgeFields}

\* what group 1 of polyline_re can match: vertices separated by ';', with
\* or without a ';' after the last one
LffPolylines ==
    LET joined == {JoinChar(vs, ";") : vs \in SeqsUpTo(LffVertices, MaxVerts) \ {<<>>}}
    IN  joined \cup {t \o <<";">> : t \in joined}

InitLff ==
    /\ text \in LffPolylines
    /\ moved = None
    /\ pc = "move_bulge_parameter"
    /\ polyline = <<>> /\ fit = <<>> /\ i = 0 /\ k = 0 /\ arc = None
    /\ vertices = <<>> /\ pass = 1 /\ first = None
    /\ hershey = <<>> /\ gfit = <<>> /\ glyph = None

\* lines 63-73
CallMoveBulgeParameter ==
    /\ pc = "move_bulge_parameter"
    /\ moved' = move_bulge_parameter(text)
    /\ pc' = "returned"
    /\ UNCHANGED <<segVars, glyphVars, text>>

NextLff == CallMoveBulgeParameter

SpecLff == InitLff /\ [][NextLff]_vars

-----------------------------------------------------------------------------
(* Claims about convert_polyline_arcs *)

\* the fit accepts the window <<i, k>>: residu / k <= 0.01
FitAccepts(w) == fit[w].residu <= w[2]

\* the window of the arc emitted by the last iteration
LastRun == <<i - k + 1, k>>

\* C1 (as claimed): a polyline of n >= 3 points whose whole-polyline fit is
\* accepted is returned as exactly 2 vertices, the first point carrying the
\* arc angle and the last point; the last point is not emitted a second time.
C1_FullCollapse ==
    (pc = "returned" /\ pass = 1 /\ Len(polyline) >= 3
        /\ FitAccepts(<<0, Len(polyline)>>))
    => /\ Len(vertices) = 2
       /\ XY(vertices) = <<XY(polyline)[1], XY(polyline)[Len(polyline)]>>

\* C4 (as claimed): a window whose fit failed (the solver did not converge,
\* or the points are degenerate) is treated like a rejected fit: no arc is
\* emitted for it.
C4_FailureIsRejection ==
    (pc = "while" /\ arc # None)
    => /\ fit[LastRun].ier \in 1 .. 4
       /\ ~Degenerate(Slice(polyline, LastRun[1], LastRun[2]))

\* C5: for an input of at least 2 points the output has at least one vertex,
\* its first vertex has the coordinates of the first input point and its last
\* vertex those of the last input point.
C5_Endpoints ==
    (pc = "returned" /\ Len(polyline) >= 2)
    => /\ Len(vertices) >= 1
       /\ XY(vertices)[1] = XY(polyline)[1]
       /\ XY(vertices)[Len(vertices)] = XY(polyline)[Len(polyline)]

\* an arc replaced interior points
C5_Witness ==
    /\ pc = "returned" /\ Len(polyline) >= 3
    /\ Len(vertices) < Len(polyline)

\* C6: if the fit accepts no window of 3 or more consecutive points (always
\* so for fewer than 3 points), the input is returned unchanged.
C6_NoArcUnchanged ==
    (pc = "returned" /\ \A w \in DOMAIN fit : ~FitAccepts(w))
    => vertices = polyline

C6_Witness ==
    /\ pc = "returned" /\ Len(polyline) >= 3
    /\ \A w \in DOMAIN fit : ~FitAccepts(w)
    /\ vertices = polyline

\* what one step of the loop that emits an arc does
C9_GreedyStep ==
    (pc = "while" /\ i < Len(polyline) /\ arc' # None)
    => /\ k' \in 3 .. Len(polyline) - i
       /\ FitAccepts(<<i, k'>>)
       /\ \A k2 \in k' + 1 .. Len(polyline) - i : ~FitAccepts(<<i, k2>>)
       /\ i' = i + k' - 1
       /\ i' > i
       /\ vertices' = vertices \o arc'
       /\ XY(arc') = <<XY(polyline)[i + 1], XY(polyline)[i + k']>>

\* C9: an iteration at cursor i that emits an arc emits it for the longest
\* window polyline[i:i+k], 3 <= k <= n-i, that the fit accepts, appends the
\* two vertices of that arc and moves the cursor to i+k-1, the last point of
\* the run; the cursor only moves forward.
C9_Greedy == [][C9_GreedyStep]_vars

\* an arc was emitted for a window shorter than the rest of the polyline
C9_Witness ==
    /\ pc = "while" /\ arc # None
    /\ LastRun[1] + LastRun[2] < Len(polyline)

-----------------------------------------------------------------------------
(* Claims about convert_glyph *)

Data == SubSeq(hershey, 3, Len(hershey))

\* the non-empty pieces of the buffer, in order
RECURSIVE NonEmpty(_)
NonEmpty(segs) ==
    IF segs = <<>> THEN <<>>
    ELSE IF Len(Head(segs)) = 0 THEN NonEmpty(Tail(segs))
    ELSE <<Head(segs)>> \o NonEmpty(Tail(segs))

\* the simplified polyline of every non-empty piece of the buffer, in order
RECURSIVE SimplifiedFrom(_, _)
SimplifiedFrom(segs, n) ==
    IF n > Len(segs) THEN <<>>
    ELSE IF Len(segs[n]) = 0 THEN SimplifiedFrom(segs, n + 1)
    ELSE <<convert_polyline_arcs(convert_polyline(segs[n]).vertices, gfit[n])>>
            \o SimplifiedFrom(segs, n + 1)

\* C2 (as claimed): a glyph with geometry has exactly one output line per
\* non-empty stroke of the buffer, that stroke's simplified polyline, in
\* stroke order; the unsimplified polyline is not emitted with it.
C2_OneLinePerStroke ==
    (pc = "returned" /\ glyph # None /\ ~glyph.raised /\ Len(glyph.polylines) > 0)
    => /\ Len(glyph.body) = Len(NonEmpty(Split(Data)))
       /\ glyph.polylines = SimplifiedFrom(Split(Data), 1)

\* all x coordinates of a list of polylines
AllX(polylines) ==
    UNION {{polylines[n][j][1] : j \in 1 .. Len(polylines[n])} :
              n \in 1 .. Len(polylines)}

\* C3 (as claimed): in a glyph with polylines every vertex is moved by minus
\* the smallest x of all decoded points, on the x axis only: the smallest x
\* of the moved vertices is 0, y and arc angle are unchanged; also when some
\* point has x = 0 before the move.
C3_LeftAligned ==
    (pc = "returned" /\ glyph # None /\ ~glyph.raised /\ Len(glyph.polylines) > 0)
    => /\ \A x \in AllX(glyph.shifted) : x >= 0
       /\ 0 \in AllX(glyph.shifted)
       /\ Len(glyph.shifted) = Len(glyph.polylines)
       /\ \A n \in 1 .. Len(glyph.polylines) :
             /\ Len(glyph.shifted[n]) = Len(glyph.polylines[n])
             /\ \A j \in 1 .. Len(glyph.polylines[n]) :
                   /\ glyph.shifted[n][j][2] = glyph.polylines[n][j][2]
                   /\ glyph.shifted[n][j][3] = glyph.polylines[n][j][3]

\* the buffer read as consecutive pairs of symbols
Pairs(d) == [n \in 1 .. Len(d) \div 2 |-> <<d[2 * n - 1], d[2 * n]>>]

\* the pairs split at the pen-lift pairs, empty strokes dropped
RECURSIVE PairStrokes(_, _)
PairStrokes(ps, cur) ==
    IF ps = <<>>
    THEN IF cur = <<>> THEN <<>> ELSE <<cur>>
    ELSE IF Head(ps) = PenLift
    THEN (IF cur = <<>> THEN <<>> ELSE <<cur>>) \o PairStrokes(Tail(ps), <<>>)
    ELSE PairStrokes(Tail(ps),
                     Append(cur, <<convert_x(Head(ps)[1]), convert_y(Head(ps)[2]), 0>>))

\* the polylines convert_polyline decoded: every other entry of the list
\* convert_polylines returns
DecodedOf(polylines) ==
    [n \in 1 .. Len(polylines) \div 2 |-> polylines[2 * n - 1]]

\* C7 (as claimed): the buffer after its first two symbols is read as
\* consecutive pairs and split only at pen-lift pairs: every other pair is
\* one point of one polyline, in order; a ' R' that lies across two pairs
\* splits nothing and drops nothing; an empty stroke gives no polyline.
C7_SplitAtMarkerPairs ==
    (pc = "returned" /\ glyph # None /\ Len(Data) % 2 = 0)
    => /\ ~glyph.raised
       /\ DecodedOf(glyph.polylines) = PairStrokes(Pairs(Data), <<>>)

-----------------------------------------------------------------------------
(* Claims about move_bulge_parameter *)

\* the fields of a vertex before its bulge
XYFields(v) == SubSeq(v, 1, Min(Len(v), 2))

\* C10: move_bulge_parameter keeps the number, the order and the x,y fields
\* of the vertices; output vertex n carries a bulge exactly when input vertex
\* n+1 carried one, and then that one; the last output vertex carries none,
\* and a bulge on the first input vertex is gone.
C10_BulgeMoved ==
    pc = "returned" /\ moved # None
    => LET in == SplitVertices(text)
           out == SplitVertices(moved)
       IN  /\ Len(out) = Len(in)
           /\ \A n \in 1 .. Len(in) :
                 /\ XYFields(out[n]) = XYFields(in[n])
                 /\ Len(out[n]) <= 3
                 /\ Len(out[n]) > 2 <=> (n < Len(in) /\ Len(in[n + 1]) > 2)
                 /\ Len(out[n]) > 2 => out[n][3] = in[n + 1][3]

\* a polyline whose first two vertices both carried a bulge was converted
C10_Witness ==
    /\ pc = "returned" /\ moved # None
    /\ Len(SplitVertices(text)) >= 3
    /\ Len(SplitVertices(text)[1]) > 2
    /\ Len(SplitVertices(text)[2]) > 2
    /\ Len(SplitVertices(text)[3]) = 2
    /\ SplitVertices(text)[1][3] # SplitVertices(text)[2][3]

====
